---- MODULE Spec2Model ----
(***************************************************************************)
(* GF(2) vector-matrix multiplication over bit-packed machine words, as    *)
(* implemented by src/lib.rs of binfield_matrix: matrix_mul,               *)
(* matrix_mul_systematic and the shared fold accum_rows.                   *)
(*                                                                         *)
(* Words are modelled as naturals.  The output word type O has OW bits;    *)
(* the input word type I is the narrowest type that holds every vector and *)
(* row that is enumerated (values 0..MaxWord).  The widths are scaled down *)
(* from the machine widths so that every matrix of up to MaxRows rows is   *)
(* enumerated.                                                             *)
(***************************************************************************)
EXTENDS FiniteSets, Integers, Sequences, TLC

\* Largest vector and largest row enumerated.
MaxWord == 3
\* Bit width of the output word type O.
OW == 3
\* Longest matrix shared by concurrent callers, and the number of callers.
MaxSharedRows == 2
NumCallers == 2

RECURSIVE BitLen(_)
BitLen(x) == IF x = 0 THEN 0 ELSE 1 + BitLen(x \div 2)

\* Bit width of the input word type I.
IW == BitLen(MaxWord)
\* Longest matrix handed to a single call; one more row than O has bits, so
\* that row-count overflow happens.
MaxRows == OW + 1

IWords == 0..MaxWord
OWords == 0..(2^OW - 1)
Callers == 1..NumCallers
\* The vectors and rows concurrent callers use: the non-zero two-bit words,
\* so that both parities occur.
SharedWords == {1, 2, 3}

RECURSIVE SeqsUpTo(_, _)
SeqsUpTo(S, n) ==
    IF n = 0 THEN {<<>>}
    ELSE LET shorter == SeqsUpTo(S, n - 1)
         IN  shorter \cup {Append(s, x) : s \in {q \in shorter : Len(q) = n - 1}, x \in S}

Mats == SeqsUpTo(IWords, MaxRows)
SharedMats == SeqsUpTo(SharedWords, MaxSharedRows)

VARIABLES
    word,    \* the vector passed to the sequential call
    mat,     \* the row sequence (borrowed, read-only slice)
    fn,      \* which entry point has been applied: "none", "mul", "sys"
    out,     \* the value the sequential call returned
    cpc,     \* per concurrent caller: "idle", "fold" or "done"
    cword,   \* per concurrent caller: its vector
    cfn,     \* per concurrent caller: its entry point
    cidx,    \* per concurrent caller: next row of the slice iterator (1-based)
    caccum,  \* per concurrent caller: the fold's accumulator
    cout     \* per concurrent caller: the returned value

vars == <<word, mat, fn, out, cpc, cword, cfn, cidx, caccum, cout>>
seqVars == <<word, fn, out>>
conVars == <<cpc, cword, cfn, cidx, caccum, cout>>

----------------------------------------------------------------------------
(* Primitive integer operations of PrimInt on words held as naturals.      *)

RECURSIVE BitAnd(_, _)
BitAnd(a, b) ==
    IF a = 0 \/ b = 0 THEN 0
    ELSE (a % 2) * (b % 2) + 2 * BitAnd(a \div 2, b \div 2)

RECURSIVE BitOr(_, _)
BitOr(a, b) ==
    IF a = 0 THEN b
    ELSE IF b = 0 THEN a
    ELSE (IF (a % 2) + (b % 2) > 0 THEN 1 ELSE 0) + 2 * BitOr(a \div 2, b \div 2)

RECURSIVE CountOnes(_)
CountOnes(x) == IF x = 0 THEN 0 ELSE (x % 2) + CountOnes(x \div 2)

\* Variant: rotate_left(1), the top bit re-enters at the bottom.
Shl1Rotate(x) == ((x * 2) % (2^OW)) + ((x * 2) \div (2^OW))

\* Variant: a saturating shift, the word sticks at its maximum on overflow.
Shl1Saturating(x) == IF x * 2 >= 2^OW THEN 2^OW - 1 ELSE x * 2

\* accum << 1 on an OW-bit word: the top bit is shifted out and lost.
Shl1(x) == (x * 2) % (2^OW)

\* O::zero()
Zero == 0

\* From<u8> for O, applied to the 0/1 parity bit (zero extension of 8 bits).
RECURSIVE ZeroExtend(_, _, _)
ZeroExtend(x, from, to) ==
    IF to = 0 THEN 0
    ELSE (IF from > 0 THEN x % 2 ELSE 0) + 2 * ZeroExtend(x \div 2, from - 1, to - 1)

FromU8(b) == ZeroExtend(b, 8, OW)

\* Variant: sign extension, the top bit of the word fills the upper bits.
IntoSignExtend(w) ==
    IF w \div (2^(IW - 1)) = 1 THEN w + (2^OW - 2^IW) ELSE w

\* Into<O> for I: the IW bits of the word become the low bits of an OW-bit
\* word, the remaining bits are zero.
Into(w) == ZeroExtend(w, IW, OW)

----------------------------------------------------------------------------
(* The library.                                                            *)

\* Variant: the "& 1" is missing, the population count itself is used.
DotBitNoMask(w, row) == CountOnes(BitAnd(w, row)) % 256

\* Variant: "any common bit" (OR of the products) instead of their parity.
DotBitAny(w, row) == IF BitAnd(w, row) # 0 THEN 1 ELSE 0

\* let bit = ((word & row).count_ones() & 1) as u8;
DotBit(w, row) == BitAnd(CountOnes(BitAnd(w, row)), 1) % 256

\* Variant: (accum | bit) << 1, the shift applied after the insertion.
FoldStepShiftAfter(w, accum, row) == Shl1(BitOr(accum, FromU8(DotBit(w, row))))

\* The fold's closure: accum << 1 | bit.into()
FoldStep(w, accum, row) == BitOr(Shl1(accum), FromU8(DotBit(w, row)))

\* Variant: the rows folded last to first (mat.iter().rev()).
RECURSIVE accum_rows_rev(_, _, _)
accum_rows_rev(w, init, m) ==
    IF m = <<>> THEN init
    ELSE FoldStep(w, accum_rows_rev(w, init, Tail(m)), Head(m))

\* mat.iter().fold(init, closure): left fold in slice order.
RECURSIVE accum_rows(_, _, _)
accum_rows(w, init, m) ==
    IF m = <<>> THEN init
    ELSE accum_rows(w, FoldStep(w, init, Head(m)), Tail(m))

matrix_mul(w, m) == accum_rows(w, Zero, m)

\* Variant: the accumulator is not pre-loaded with the word.
matrix_mul_systematic_zero(w, m) == accum_rows(w, Zero, m)

matrix_mul_systematic(w, m) == accum_rows(w, Into(w), m)

InitAccum(f, w) == IF f = "mul" THEN Zero ELSE Into(w)

----------------------------------------------------------------------------
(* Sequential use: one call applied to inputs drawn from the bounded sets. *)

IdleCallers ==
    /\ cpc = [t \in Callers |-> "idle"]
    /\ cword = [t \in Callers |-> 0]
    /\ cfn = [t \in Callers |-> "none"]
    /\ cidx = [t \in Callers |-> 1]
    /\ caccum = [t \in Callers |-> 0]
    /\ cout = [t \in Callers |-> 0]

Init ==
    /\ word \in IWords
    /\ mat \in Mats
    /\ fn = "none"
    /\ out = 0
    /\ IdleCallers

CallMatrixMul ==
    /\ fn = "none"
    /\ fn' = "mul"
    /\ out' = matrix_mul(word, mat)
    /\ UNCHANGED <<word, mat>>
    /\ UNCHANGED conVars

CallMatrixMulSystematic ==
    /\ fn = "none"
    /\ fn' = "sys"
    /\ out' = matrix_mul_systematic(word, mat)
    /\ UNCHANGED <<word, mat>>
    /\ UNCHANGED conVars

Next == CallMatrixMul \/ CallMatrixMulSystematic

Spec == Init /\ [][Next]_vars

----------------------------------------------------------------------------
(* Concurrent use: several callers fold over one shared slice, one row per *)
(* step, interleaved in any order.                                         *)

InitShared ==
    /\ word = 0
    /\ fn = "none"
    /\ out = 0
    /\ mat \in SharedMats
    /\ IdleCallers

\* Entry into matrix_mul / matrix_mul_systematic: accum_rows is called with
\* the entry point's initial accumulator and a fresh iterator over the slice.
Call(t, w, f) ==
    /\ cpc[t] = "idle"
    /\ cpc' = [cpc EXCEPT ![t] = "fold"]
    /\ cword' = [cword EXCEPT ![t] = w]
    /\ cfn' = [cfn EXCEPT ![t] = f]
    /\ cidx' = [cidx EXCEPT ![t] = 1]
    /\ caccum' = [caccum EXCEPT ![t] = InitAccum(f, w)]
    /\ UNCHANGED <<cout, mat>>
    /\ UNCHANGED seqVars

\* Variant: the fold pops each row off the shared sequence as it reads it.
FoldRowConsuming(t) ==
    /\ cpc[t] = "fold"
    /\ cidx[t] <= Len(mat)
    /\ caccum' = [caccum EXCEPT ![t] = FoldStep(cword[t], caccum[t], Head(mat))]
    /\ mat' = Tail(mat)
    /\ UNCHANGED <<cpc, cword, cfn, cidx, cout>>
    /\ UNCHANGED seqVars

\* One iteration of the fold: the closure is applied to the next row.
FoldRow(t) ==
    /\ cpc[t] = "fold"
    /\ cidx[t] <= Len(mat)
    /\ caccum' = [caccum EXCEPT ![t] = FoldStep(cword[t], caccum[t], mat[cidx[t]])]
    /\ cidx' = [cidx EXCEPT ![t] = cidx[t] + 1]
    /\ UNCHANGED <<cpc, cword, cfn, cout, mat>>
    /\ UNCHANGED seqVars

\* The iterator is exhausted: fold returns the accumulator.
Return(t) ==
    /\ cpc[t] = "fold"
    /\ cidx[t] > Len(mat)
    /\ cpc' = [cpc EXCEPT ![t] = "done"]
    /\ cout' = [cout EXCEPT ![t] = caccum[t]]
    /\ UNCHANGED <<cword, cfn, cidx, caccum, mat>>
    /\ UNCHANGED seqVars

NextShared ==
    \E t \in Callers :
        \/ \E w \in SharedWords, f \in {"mul", "sys"} : Call(t, w, f)
        \/ FoldRow(t)
        \/ Return(t)

SpecShared == InitShared /\ [][NextShared]_vars

----------------------------------------------------------------------------
(* Reference notions the properties are stated with.  They are defined     *)
(* arithmetically, independently of the operators of the library above.    *)

\* Bit i of x, counted from the least significant bit.
Bit(x, i) == (x \div (2^i)) % 2

\* GF(2) inner product of two input words.
Parity(v, r) == Cardinality({i \in 0..(IW - 1) : Bit(v, i) = 1 /\ Bit(r, i) = 1}) % 2

\* The per-row parity bits concatenated MSB-first, as an unbounded natural.
RECURSIVE ConcatParity(_, _)
ConcatParity(v, m) ==
    IF m = <<>> THEN 0
    ELSE Parity(v, Head(m)) * 2^(Len(m) - 1) + ConcatParity(v, Tail(m))

RECURSIVE Xor(_, _)
Xor(a, b) ==
    IF a = 0 THEN b
    ELSE IF b = 0 THEN a
    ELSE ((a + b) % 2) + 2 * Xor(a \div 2, b \div 2)

Perms(n) == {p \in [1..n -> 1..n] : \A i, j \in 1..n : p[i] = p[j] => i = j}

Permuted(m, p) == [k \in 1..Len(m) |-> m[p[k]]]

N == Len(mat)

\* What a systematic call would return in a word of unbounded width.
Untruncated == word * 2^N + ConcatParity(word, mat)

----------------------------------------------------------------------------
(* Properties.                                                             *)

\* C1: for N <= bit-width(O), bit i (from the LSB) of matrix_mul(v, rows) is
\* the parity of popcount(v AND rows[N-1-i]) for every i < N, and every bit
\* at a position >= N is zero.
C1_ProductBits ==
    (fn = "mul" /\ N <= OW) =>
        /\ \A i \in 0..(N - 1) : Bit(out, i) = Parity(word, mat[N - i])
        /\ \A i \in N..(OW - 1) : Bit(out, i) = 0
        /\ out < 2^OW

C1_Witness == fn = "mul" /\ N = 3 /\ out = 5

\* C2: for N <= bit-width(O) - bit-width(I), matrix_mul_systematic(v, rows)
\* is (widen(v) << N) | matrix_mul(v, rows): the vector sits unchanged
\* directly above the N parity bits.
C2_SystematicLayout ==
    (fn = "sys" /\ N <= OW - IW) =>
        /\ out = BitOr((word * 2^N) % (2^OW), matrix_mul(word, mat))
        /\ out \div (2^N) = word
        /\ out % (2^N) = ConcatParity(word, mat)

C2_Witness == fn = "sys" /\ N = OW - IW /\ N > 0 /\ word = 3 /\ out % 2 = 1

\* C3: matrix_mul is GF(2)-linear in the vector, for row sequences of any
\* length: matrix_mul(v1 XOR v2, rows) = matrix_mul(v1, rows) XOR
\* matrix_mul(v2, rows).
C3_Linearity ==
    fn = "mul" =>
        \A v2 \in IWords :
            matrix_mul(Xor(word, v2), mat) = Xor(out, matrix_mul(v2, mat))

C3_Witness == fn = "mul" /\ N > OW /\ word = 3 /\ out = 2^OW - 1

\* C4: with an empty row sequence matrix_mul returns 0 and
\* matrix_mul_systematic returns the widened vector.
C4_EmptyRows ==
    /\ (fn = "mul" /\ mat = <<>>) => out = 0
    /\ (fn = "sys" /\ mat = <<>>) => out = word

C4_Witness == fn = "sys" /\ mat = <<>> /\ word = 3 /\ out = 3

\* C5: for N <= bit-width(O) and every permutation p of the row indices, the
\* output bit belonging to index k in the product with the permuted rows
\* (rows'[k] = rows[p(k)]) is the output bit belonging to index p(k) in the
\* product with the original rows.
C5_RowOrder ==
    (fn = "mul" /\ N <= OW) =>
        \A p \in Perms(N) :
            LET permOut == matrix_mul(word, Permuted(mat, p))
            IN  \A k \in 1..N : Bit(permOut, N - k) = Bit(out, N - p[k])

C5_Witness == fn = "mul" /\ N = OW /\ out = 2^(OW - 1) + 1

\* C6 as stated: for N <= bit-width(O), the dot-product bit of row j
\* (0-indexed) is the output bit at position N-1-j counted from the most
\* significant end of the low N bits, i.e. bit j counted from the LSB.
C6_Original ==
    (fn = "mul" /\ N <= OW) =>
        \A j \in 0..(N - 1) : Bit(out, (N - 1) - (N - 1 - j)) = Parity(word, mat[j + 1])

\* C6 amended: for N <= bit-width(O), the dot-product bit of row j
\* (0-indexed) is the output bit at position j counted from the most
\* significant end of the low N bits, i.e. bit N-1-j counted from the LSB.
C6_RowPosition ==
    (fn = "mul" /\ N <= OW) =>
        \A j \in 0..(N - 1) : Bit(out, (N - 1) - j) = Parity(word, mat[j + 1])

C6_Witness == fn = "mul" /\ N = 2 /\ out = 2

\* C7: when several calls fold over one shared row sequence with their
\* per-row steps interleaved in any order, the row sequence is never
\* modified and every call returns what the same call returns run alone.
C7_SharedRows ==
    /\ [][mat' = mat]_vars
    /\ [](\A t \in Callers :
            cpc[t] = "done" =>
                cout[t] = IF cfn[t] = "mul"
                          THEN matrix_mul(cword[t], mat)
                          ELSE matrix_mul_systematic(cword[t], mat))

C7_Witness ==
    /\ N = MaxSharedRows
    /\ cpc[1] = "done" /\ cout[1] # 0
    /\ cpc[2] = "fold" /\ cidx[2] = 2
    /\ cword[1] # cword[2]

\* C8: when N exceeds bit-width(O), matrix_mul returns the MSB-first
\* concatenation of all N parity bits reduced modulo 2^bit-width(O); the
\* result depends only on the last bit-width(O) rows.
C8_ProductOverflow ==
    (fn = "mul" /\ N > OW) =>
        /\ out = ConcatParity(word, mat) % (2^OW)
        /\ \A pre \in [1..(N - OW) -> IWords] :
              matrix_mul(word, pre \o SubSeq(mat, N - OW + 1, N)) = out

C8_Witness ==
    fn = "mul" /\ N > OW /\ Parity(word, mat[1]) = 1 /\ out = 1

\* C9 as stated: whenever N exceeds bit-width(O) - bit-width(I), the value
\* matrix_mul_systematic returns differs from the untruncated value
\* widen(v) * 2^N + (concatenation of the N parity bits).
C9_Original ==
    (fn = "sys" /\ N > OW - IW) => out # Untruncated

\* C9 amended: whenever N exceeds bit-width(O) - bit-width(I),
\* matrix_mul_systematic returns the untruncated value reduced modulo
\* 2^bit-width(O); it differs from the untruncated value exactly when that
\* value does not fit in bit-width(O) bits.
C9_SystematicOverflow ==
    (fn = "sys" /\ N > OW - IW) =>
        /\ out = Untruncated % (2^OW)
        /\ (out # Untruncated) <=> (Untruncated >= 2^OW)

C9_Witness ==
    fn = "sys" /\ N > OW - IW /\ N <= OW /\ Untruncated >= 2^OW /\ out # 0

\* C10: the fold composes over concatenation: accum_rows(v, init, A ++ B) =
\* accum_rows(v, accum_rows(v, init, A), B) for every init; matrix_mul(v,
\* A ++ B) = (matrix_mul(v, A) * 2^|B| + matrix_mul(v, B)) mod
\* 2^bit-width(O); and matrix_mul_systematic is the same fold started from
\* the widened vector.
C10_FoldComposes ==
    /\ fn = "mul" =>
          \A init \in OWords :
              LET whole == accum_rows(word, init, mat)
              IN  \A k \in 0..N :
                      whole = accum_rows(word,
                                         accum_rows(word, init, SubSeq(mat, 1, k)),
                                         SubSeq(mat, k + 1, N))
    /\ fn = "mul" =>
          \A k \in 0..N :
              LET A == SubSeq(mat, 1, k)
                  B == SubSeq(mat, k + 1, N)
              IN  out = (matrix_mul(word, A) * 2^(N - k) + matrix_mul(word, B)) % (2^OW)
    /\ fn = "sys" => out = accum_rows(word, word, mat)

C10_Witness == fn = "mul" /\ N = MaxRows /\ out = 2^OW - 2

====
